---- MODULE Spec2Model ----
(***************************************************************************)
(* A model of the sctp-rs type layer (src/sctp-rs/src/types.rs and         *)
(* src/sctp-rs/src/consts.rs): the total lookup functions that turn raw    *)
(* integers into enumerations, the enum discriminants, and the             *)
(* notification / ancillary-data codec built on the struct layouts.        *)
(*                                                                         *)
(* The layer is stateless.  A behaviour is one call: the initial state     *)
(* holds the operation and its input (pc = "call"), the operation's action *)
(* computes the result (pc = "ret").                                       *)
(*                                                                         *)
(* TLC's integers are 32-bit signed.  u16 and i32 values are integers;     *)
(* a u32 value is the record [hi, lo] of its two 16-bit halves.            *)
(***************************************************************************)
EXTENDS Integers, Sequences, FiniteSets, TLC

VARIABLES
    pc,     \* "call": the input is set, "mid": encoded and not yet decoded, "ret": returned
    op,     \* the operation called
    arg,    \* its input
    wire,   \* the bytes an encoder produced (<<>> otherwise)
    ret     \* its result (NoValue before the return)

vars == <<pc, op, arg, wire, ret>>

NoValue == <<>>

(***************************************************************************)
(* Integer domains                                                         *)
(***************************************************************************)

\* u16::MAX
U16Max == 65535

\* i32::MAX and i32::MIN
I32Max == 2147483647

I32Min == -I32Max - 1

U16 == 0..U16Max

\* The i32 inputs tried: every value of small magnitude and the values next
\* to both ends of the type.
MaxSmall == 40

SmallI32 == (-MaxSmall..MaxSmall) \cup {I32Min, I32Min + 1, I32Max - 1, I32Max}

(***************************************************************************)
(* Event (types.rs)                                                        *)
(***************************************************************************)

\* The variants of enum Event, in declaration order.
EventVariants ==
    << "DataIo", "Association", "Address", "SendFailure", "PeerError",
       "Shutdown", "PartialDelivery", "AdaptationLayer", "Authentication",
       "SenderDry", "StreamReset", "AssociationReset", "StreamChange",
       "SendFailureEvent", "Unknown" >>

Event == { EventVariants[i] : i \in 1..Len(EventVariants) }

\* The position of variant e in the declaration.
EventIndex(e) == CHOOSE i \in 1..Len(EventVariants) : EventVariants[i] = e

\* Mutant: the first discriminant written as (1 << 15) + 1.
Event_as_u16_Mut(e) == ((2^15 + 1) + (EventIndex(e) - 1)) % 2^16

\* `e as u16` of a #[repr(u16)] enum: the first variant is given (1 << 15);
\* every later variant has no explicit discriminant and so takes the previous
\* one plus one.
Event_as_u16(e) == (2^15 + (EventIndex(e) - 1)) % 2^16

\* Mutant: the last arm of the match is missing.
Event_from_u16_Mut(val) ==
    CASE val = \H8000 -> "DataIo"
      [] val = \H8001 -> "Association"
      [] val = \H8002 -> "Address"
      [] val = \H8003 -> "SendFailure"
      [] val = \H8004 -> "PeerError"
      [] val = \H8005 -> "Shutdown"
      [] val = \H8006 -> "PartialDelivery"
      [] val = \H8007 -> "AdaptationLayer"
      [] val = \H8008 -> "Authentication"
      [] val = \H8009 -> "SenderDry"
      [] val = \H800A -> "StreamReset"
      [] val = \H800B -> "AssociationReset"
      [] val = \H800C -> "StreamChange"
      [] OTHER -> "Unknown"

\* Event::from_u16
Event_from_u16(val) ==
    CASE val = \H8000 -> "DataIo"
      [] val = \H8001 -> "Association"
      [] val = \H8002 -> "Address"
      [] val = \H8003 -> "SendFailure"
      [] val = \H8004 -> "PeerError"
      [] val = \H8005 -> "Shutdown"
      [] val = \H8006 -> "PartialDelivery"
      [] val = \H8007 -> "AdaptationLayer"
      [] val = \H8008 -> "Authentication"
      [] val = \H8009 -> "SenderDry"
      [] val = \H800A -> "StreamReset"
      [] val = \H800B -> "AssociationReset"
      [] val = \H800C -> "StreamChange"
      [] val = \H800D -> "SendFailureEvent"
      [] OTHER -> "Unknown"

(***************************************************************************)
(* SubscribeEventAssocId (types.rs)                                        *)
(***************************************************************************)

\* The values of enum SubscribeEventAssocId tried: <<"Future">>, <<"Current">>,
\* <<"All">> and <<"Value", v>>.
SubscribeEventAssocId ==
    { <<"Future">>, <<"Current">>, <<"All">> } \cup { <<"Value", v>> : v \in SmallI32 }

\* Mutant: the Current arm copied from the Future arm.
AssociationId_from_Mut(value) ==
    CASE value[1] = "Future" -> 0
      [] value[1] = "Current" -> 0
      [] value[1] = "All" -> 2
      [] value[1] = "Value" -> value[2]

\* impl From<SubscribeEventAssocId> for AssociationId
AssociationId_from(value) ==
    CASE value[1] = "Future" -> 0
      [] value[1] = "Current" -> 1
      [] value[1] = "All" -> 2
      [] value[1] = "Value" -> value[2]

(***************************************************************************)
(* AssocChangeState and ConnState (types.rs)                               *)
(***************************************************************************)

\* Mutant: the wildcard arm written as a range that starts one too late.
AssocChangeState_from_u16_Mut(val) ==
    CASE val = 0 -> "CommUp"
      [] val = 1 -> "CommLost"
      [] val = 2 -> "Restart"
      [] val = 3 -> "ShutdownComplete"
      [] val = 4 \/ val = 5 -> "CannotStartAssoc"
      [] OTHER -> "Unknown"

\* AssocChangeState::from_u16
AssocChangeState_from_u16(val) ==
    CASE val = 0 -> "CommUp"
      [] val = 1 -> "CommLost"
      [] val = 2 -> "Restart"
      [] val = 3 -> "ShutdownComplete"
      [] val = 4 -> "CannotStartAssoc"
      [] OTHER -> "Unknown"

\* Mutant: the input's sign dropped before the match.
ConnState_from_i32_Mut(val) ==
    CASE val = 0 -> "Empty"
      [] val = 1 \/ val = -1 -> "Closed"
      [] val = 2 \/ val = -2 -> "CookieWait"
      [] val = 3 \/ val = -3 -> "CookieEchoed"
      [] val = 4 \/ val = -4 -> "Established"
      [] val = 5 \/ val = -5 -> "ShutdownPending"
      [] val = 6 \/ val = -6 -> "ShutdownSent"
      [] val = 7 \/ val = -7 -> "ShutdownReceived"
      [] val = 8 \/ val = -8 -> "ShutdownAckSent"
      [] OTHER -> "Unknown"

\* ConnState::from_i32
ConnState_from_i32(val) ==
    CASE val = 0 -> "Empty"
      [] val = 1 -> "Closed"
      [] val = 2 -> "CookieWait"
      [] val = 3 -> "CookieEchoed"
      [] val = 4 -> "Established"
      [] val = 5 -> "ShutdownPending"
      [] val = 6 -> "ShutdownSent"
      [] val = 7 -> "ShutdownReceived"
      [] val = 8 -> "ShutdownAckSent"
      [] OTHER -> "Unknown"

(***************************************************************************)
(* Fixed-width integers as bytes (native byte order: little-endian)        *)
(***************************************************************************)

\* A u32 from its two 16-bit halves.
U32(hi, lo) == [hi |-> hi, lo |-> lo]

\* The u32 value of a natural number below 2^31.
U32OfNat(n) == U32(n \div 65536, n % 65536)

\* u < n and n < u, for a u32 u and a natural number n below 2^31.
U32LtNat(u, n) == u.hi < 32768 /\ u.hi * 65536 + u.lo < n

NatLtU32(n, u) == u.hi >= 32768 \/ n < u.hi * 65536 + u.lo

\* `u as usize`, for a u32 below 2^31.
U32AsNat(u) == u.hi * 65536 + u.lo

Zeros(n) == [k \in 1..n |-> 0]

\* The bytes of a value of wire type ty: "u16", "u32", "i32" or "bytes".
\* A negative i32 is stored in two's complement (\div rounds down).
EncodeField(ty, v) ==
    CASE ty = "u16" -> << v % 256, (v \div 256) % 256 >>
      [] ty = "u32" -> << v.lo % 256, (v.lo \div 256) % 256,
                          v.hi % 256, (v.hi \div 256) % 256 >>
      [] ty = "i32" -> [k \in 1..4 |-> (v \div 256^(k - 1)) % 256]
      [] ty = "bytes" -> v

\* The value of wire type ty that the bytes bs hold.
DecodeField(ty, bs) ==
    CASE ty = "u16" -> bs[1] + 256 * bs[2]
      [] ty = "u32" -> U32(bs[3] + 256 * bs[4], bs[1] + 256 * bs[2])
      [] ty = "i32" -> bs[1] + 256 * bs[2] + 65536 * bs[3]
                         + 16777216 * (IF bs[4] >= 128 THEN bs[4] - 256 ELSE bs[4])
      [] ty = "bytes" -> bs

(***************************************************************************)
(* #[repr(C)] struct layouts                                               *)
(***************************************************************************)

\* A field of a #[repr(C)] struct: an integer is as wide as its type and
\* aligned to its width.
Field(name, ty) ==
    [name |-> name, ty |-> ty, size |-> IF ty = "u16" THEN 2 ELSE 4,
     align |-> IF ty = "u16" THEN 2 ELSE 4, conv |-> "none"]

\* An integer field that the decoder turns into an enum with from_u16.
EnumField(name, ty, conv) == [Field(name, ty) EXCEPT !.conv = conv]

\* A field that is an embedded C struct, kept as its bytes.
BlobField(name, size, align) ==
    [name |-> name, ty |-> "bytes", size |-> size, align |-> align, conv |-> "none"]

AlignUp(n, a) == ((n + a - 1) \div a) * a

RECURSIVE EndOf(_, _)
\* The offset just after field i (0 for i = 0).
EndOf(layout, i) ==
    IF i = 0 THEN 0
    ELSE AlignUp(EndOf(layout, i - 1), layout[i].align) + layout[i].size

OffsetOf(layout, i) == AlignUp(EndOf(layout, i - 1), layout[i].align)

RECURSIVE MaxAlign(_, _)
MaxAlign(layout, i) ==
    IF i = 0 THEN 1
    ELSE LET m == MaxAlign(layout, i - 1)
         IN IF layout[i].align > m THEN layout[i].align ELSE m

\* size_of the struct made of the fields of layout.
SizeOf(layout) == AlignUp(EndOf(layout, Len(layout)), MaxAlign(layout, Len(layout)))

FieldNames(layout) == { layout[i].name : i \in 1..Len(layout) }

RECURSIVE EncodePrefix(_, _, _)
\* The bytes of the first i fields, with the padding between them.
EncodePrefix(layout, vals, i) ==
    IF i = 0 THEN <<>>
    ELSE LET prev == EncodePrefix(layout, vals, i - 1)
             off == AlignUp(Len(prev), layout[i].align)
         IN prev \o Zeros(off - Len(prev))
                 \o EncodeField(layout[i].ty, vals[layout[i].name])

\* The bytes of a struct whose fields hold vals (padding bytes are zero).
EncodeStruct(layout, vals) ==
    LET body == EncodePrefix(layout, vals, Len(layout))
    IN body \o Zeros(SizeOf(layout) - Len(body))

\* The enum a decoded integer stands for.
Convert(conv, raw) ==
    CASE conv = "Event" -> Event_from_u16(raw)
      [] conv = "AssocChangeState" -> AssocChangeState_from_u16(raw)
      [] conv = "none" -> raw

\* The fields of the struct that the first SizeOf(layout) bytes of buf hold.
DecodeStruct(layout, buf) ==
    LET ValueAt(i) ==
            Convert(layout[i].conv,
                    DecodeField(layout[i].ty,
                                SubSeq(buf, OffsetOf(layout, i) + 1, EndOf(layout, i))))
        IndexOf(n) == CHOOSE i \in 1..Len(layout) : layout[i].name = n
    IN [n \in FieldNames(layout) |-> ValueAt(IndexOf(n))]

(***************************************************************************)
(* The lookup calls                                                        *)
(***************************************************************************)

\* A call of one of the lookup operations with an input of its type.
InitLookup ==
    /\ pc = "call"
    /\ wire = <<>>
    /\ ret = NoValue
    /\ \/ op = "Event::from_u16" /\ arg \in U16
       \/ op = "AssocChangeState::from_u16" /\ arg \in U16
       \/ op = "ConnState::from_i32" /\ arg \in SmallI32
       \/ op = "AssociationId::from" /\ arg \in SubscribeEventAssocId
       \/ op = "Event as u16" /\ arg \in Event

Return(value) ==
    /\ pc' = "ret"
    /\ ret' = value
    /\ UNCHANGED <<op, arg, wire>>

CallEventFromU16 ==
    /\ pc = "call" /\ op = "Event::from_u16"
    /\ Return(Event_from_u16(arg))

CallAssocChangeStateFromU16 ==
    /\ pc = "call" /\ op = "AssocChangeState::from_u16"
    /\ Return(AssocChangeState_from_u16(arg))

CallConnStateFromI32 ==
    /\ pc = "call" /\ op = "ConnState::from_i32"
    /\ Return(ConnState_from_i32(arg))

CallAssociationIdFrom ==
    /\ pc = "call" /\ op = "AssociationId::from"
    /\ Return(AssociationId_from(arg))

CallEventAsU16 ==
    /\ pc = "call" /\ op = "Event as u16"
    /\ Return(Event_as_u16(arg))

NextLookup ==
    \/ CallEventFromU16
    \/ CallAssocChangeStateFromU16
    \/ CallConnStateFromI32
    \/ CallAssociationIdFrom
    \/ CallEventAsU16

SpecLookup == InitLookup /\ [][NextLookup]_vars

Returned(o) == pc = "ret" /\ op = o

(***************************************************************************)
(* Properties of the lookups                                               *)
(***************************************************************************)

\* C1: Event::from_u16 is total: each of the fourteen tags 0x8000..0x800D
\* returns the Event of that tag (0x8000 DataIo, ..., 0x800D SendFailureEvent),
\* and every other u16 returns Event::Unknown.
C1_KnownEvents ==
    << "DataIo", "Association", "Address", "SendFailure", "PeerError", "Shutdown",
       "PartialDelivery", "AdaptationLayer", "Authentication", "SenderDry",
       "StreamReset", "AssociationReset", "StreamChange", "SendFailureEvent" >>

C1_EventFromU16Total ==
    Returned("Event::from_u16") =>
        /\ ret \in Event
        /\ arg \in \H8000..\H800D => ret = C1_KnownEvents[arg - \H8000 + 1]
        /\ arg \notin \H8000..\H800D => ret = "Unknown"

C1_Witness ==
    Returned("Event::from_u16") /\ arg = \H800D /\ ret = "SendFailureEvent"

\* C2: AssocChangeState::from_u16 is total: 0, 1, 2, 3, 4 return CommUp,
\* CommLost, Restart, ShutdownComplete, CannotStartAssoc, and every u16
\* greater than 4 returns AssocChangeState::Unknown.
C2_AssocChangeStateTotal ==
    Returned("AssocChangeState::from_u16") =>
        /\ arg = 0 => ret = "CommUp"
        /\ arg = 1 => ret = "CommLost"
        /\ arg = 2 => ret = "Restart"
        /\ arg = 3 => ret = "ShutdownComplete"
        /\ arg = 4 => ret = "CannotStartAssoc"
        /\ arg > 4 => ret = "Unknown"

C2_Witness ==
    Returned("AssocChangeState::from_u16") /\ arg = 5 /\ ret = "Unknown"

\* C3: ConnState::from_i32 is total over i32: 0..8 return Empty, Closed,
\* CookieWait, CookieEchoed, Established, ShutdownPending, ShutdownSent,
\* ShutdownReceived, ShutdownAckSent, and every value greater than 8 and every
\* negative value returns ConnState::Unknown.
C3_Known ==
    << "Empty", "Closed", "CookieWait", "CookieEchoed", "Established",
       "ShutdownPending", "ShutdownSent", "ShutdownReceived", "ShutdownAckSent" >>

C3_ConnStateTotal ==
    Returned("ConnState::from_i32") =>
        /\ arg \in 0..8 => ret = C3_Known[arg + 1]
        /\ (arg > 8 \/ arg < 0) => ret = "Unknown"

C3_Witness ==
    Returned("ConnState::from_i32") /\ arg = -1 /\ ret = "Unknown"

\* C4: the SubscribeEventAssocId -> AssociationId conversion maps Future to 0,
\* Current to 1, All to 2 and Value(v) to v; Value(0), Value(1), Value(2)
\* convert to the same id as Future, Current, All, and no other two distinct
\* inputs convert to the same id.
C4_Collisions ==
    { {<<"Future">>, <<"Value", 0>>},
      {<<"Current">>, <<"Value", 1>>},
      {<<"All">>, <<"Value", 2>>} }

C4_ConversionLossy ==
    Returned("AssociationId::from") =>
        /\ arg = <<"Future">> => ret = 0
        /\ arg = <<"Current">> => ret = 1
        /\ arg = <<"All">> => ret = 2
        /\ arg[1] = "Value" => ret = arg[2]
        /\ \A other \in SubscribeEventAssocId :
              (other # arg /\ AssociationId_from(other) = ret)
                  <=> ({arg, other} \in C4_Collisions)

C4_Witness ==
    /\ Returned("AssociationId::from") /\ arg = <<"Value", 2>> /\ ret = 2
    /\ AssociationId_from(<<"All">>) = ret

\* C5 (as stated): every Event value's discriminant lies in 0x8000..0x800D
\* and distinct Event values have distinct discriminants.
C5_AllEventsInRange ==
    Returned("Event as u16") =>
        /\ ret \in \H8000..\H800D
        /\ \A e \in Event : e # arg => Event_as_u16(e) # ret

\* C5 (amended): the fourteen named Event values have discriminants in
\* 0x8000..0x800D, Event::Unknown has discriminant 0x800E, and distinct Event
\* values have distinct discriminants.
C5_NamedEventsInRange ==
    Returned("Event as u16") =>
        /\ arg # "Unknown" => ret \in \H8000..\H800D
        /\ arg = "Unknown" => ret = \H800E
        /\ \A e \in Event : e # arg => Event_as_u16(e) # ret

C5_Witness ==
    Returned("Event as u16") /\ arg = "SendFailureEvent" /\ ret = \H800D

(***************************************************************************)
(* Constants (consts.rs)                                                   *)
(***************************************************************************)

\* Mutant: the bit below.
MSG_NOTIFICATION_Mut == \H4000

MSG_NOTIFICATION == \H8000

SCTP_ASSOC_CHANGE == (2^15 + \H0001) % 2^16

SCTP_PEER_ADDR_CHANGE == (2^15 + \H0002) % 2^16

SCTP_SEND_FAILED == (2^15 + \H0003) % 2^16

SCTP_REMOTE_ERROR == (2^15 + \H0004) % 2^16

SCTP_SHUTDOWN == (2^15 + \H0005) % 2^16

SCTP_PARTIAL_DELIVERY_EVENT == (2^15 + \H0006) % 2^16

SCTP_ADAPTATION_INDICATION == (2^15 + \H0007) % 2^16

SCTP_AUTHENTICATION_EVENT == (2^15 + \H0008) % 2^16

\* Mutant: the value copied from the line above.
SCTP_SENDER_DRY_EVENT_Mut == (2^15 + \H0008) % 2^16

SCTP_SENDER_DRY_EVENT == (2^15 + \H0009) % 2^16

(***************************************************************************)
(* The structs (types.rs): the fields before a trailing Vec<u8>            *)
(***************************************************************************)

\* size_of struct sockaddr_storage, the wire form of PeerAddrChange.aaddr.
SockaddrStorageSize == 128

\* size_of struct sctp_sndrcvinfo (u16, u16, u16, u32, u32, u32, u32, u32, i32).
SndRcvInfoSize == 32

\* The three fields every notification starts with.
HeaderLayout ==
    << EnumField("ev_type", "u16", "Event"), Field("flags", "u16"),
       Field("length", "u32") >>

\* Mutant: `error` declared u32.
AssociationChangeLayout_Mut ==
    HeaderLayout \o
    << EnumField("state", "u16", "AssocChangeState"), Field("error", "u32"),
       Field("ob_streams", "u16"), Field("ib_streams", "u16"),
       Field("assoc_id", "i32") >>

\* Mutant: `assoc_id` declared before the stream counts.
AssociationChangeLayout_Reordered ==
    HeaderLayout \o
    << EnumField("state", "u16", "AssocChangeState"), Field("error", "u16"),
       Field("assoc_id", "i32"), Field("ob_streams", "u16"),
       Field("ib_streams", "u16") >>

AssociationChangeLayout ==
    HeaderLayout \o
    << EnumField("state", "u16", "AssocChangeState"), Field("error", "u16"),
       Field("ob_streams", "u16"), Field("ib_streams", "u16"),
       Field("assoc_id", "i32") >>

PeerAddrChangeLayout ==
    HeaderLayout \o
    << BlobField("aaddr", SockaddrStorageSize, 4), Field("state", "u32"),
       Field("error", "u32"), Field("assoc_id", "i32") >>

SendFailedLayout ==
    HeaderLayout \o
    << Field("error", "u32"), BlobField("ssf_info", SndRcvInfoSize, 4),
       Field("assoc_id", "i32") >>

RemoteErrorLayout ==
    HeaderLayout \o << Field("error", "u16"), Field("assoc_id", "i32") >>

ShutdownLayout == HeaderLayout \o << Field("assoc_id", "i32") >>

AdaptationEventLayout ==
    HeaderLayout \o << Field("adaptation_ind", "u32"), Field("assoc_id", "i32") >>

PdapiEventLayout ==
    HeaderLayout \o
    << Field("indication", "u32"), Field("stream", "u32"), Field("seq", "u32"),
       Field("assoc_id", "i32") >>

AuthkeyEventLayout ==
    HeaderLayout \o
    << Field("keynumber", "u16"), Field("indication", "u32"),
       Field("assoc_id", "i32") >>

SenderDryEventLayout == HeaderLayout \o << Field("assoc_id", "i32") >>

\* Mutant: `flags` declared before `sid`.
SendInfoLayout_Mut ==
    << Field("flags", "u16"), Field("sid", "u16"), Field("ppid", "u32"),
       Field("context", "u32"), Field("assoc_id", "i32") >>

SendInfoLayout ==
    << Field("sid", "u16"), Field("flags", "u16"), Field("ppid", "u32"),
       Field("context", "u32"), Field("assoc_id", "i32") >>

RcvInfoLayout ==
    << Field("sid", "u16"), Field("ssn", "u16"), Field("flags", "u16"),
       Field("ppid", "u32"), Field("tsn", "u32"), Field("cumtsn", "u32"),
       Field("context", "u32"), Field("assoc_id", "i32") >>

NxtInfoLayout ==
    << Field("sid", "u16"), Field("flags", "u16"), Field("ppid", "u32"),
       Field("length", "u32"), Field("assoc_id", "i32") >>

\* enum CmsgType, in declaration order (Init = 0).
CmsgTypeVariants ==
    << "Init", "SndRcv", "SndInfo", "RcvInfo", "NxtInfo", "PrInfo", "AuthInfo",
       "DstAddrV4", "DstAddrV6" >>

\* `t as i32` of a CmsgType.
CmsgType_as_i32(t) ==
    (CHOOSE i \in 1..Len(CmsgTypeVariants) : CmsgTypeVariants[i] = t) - 1

(***************************************************************************)
(* Notification (types.rs)                                                 *)
(***************************************************************************)

\* Mutant: the SenderDry arm is missing.
NotificationOf_Mut(ev) ==
    CASE ev = "Association" -> "AssociationChange"
      [] ev = "Address" -> "PeerAddrChange"
      [] ev = "SendFailure" -> "SendFailed"
      [] ev = "PeerError" -> "RemoteError"
      [] ev = "Shutdown" -> "Shutdown"
      [] ev = "PartialDelivery" -> "PartialDeliveryEvent"
      [] ev = "AdaptationLayer" -> "AdaptationIndication"
      [] ev = "Authentication" -> "AuthenticationEvent"
      [] OTHER -> "Unsupported"

\* The Notification variant that reports Event ev: each notification struct
\* names the Event that subscribes to it; the others fall to Unsupported.
NotificationOf(ev) ==
    CASE ev = "Association" -> "AssociationChange"
      [] ev = "Address" -> "PeerAddrChange"
      [] ev = "SendFailure" -> "SendFailed"
      [] ev = "PeerError" -> "RemoteError"
      [] ev = "Shutdown" -> "Shutdown"
      [] ev = "PartialDelivery" -> "PartialDeliveryEvent"
      [] ev = "AdaptationLayer" -> "AdaptationIndication"
      [] ev = "Authentication" -> "AuthenticationEvent"
      [] ev = "SenderDry" -> "SenderDryEvent"
      [] OTHER -> "Unsupported"

\* The struct a Notification variant carries.
LayoutOf(variant) ==
    CASE variant = "AssociationChange" -> AssociationChangeLayout
      [] variant = "PeerAddrChange" -> PeerAddrChangeLayout
      [] variant = "SendFailed" -> SendFailedLayout
      [] variant = "RemoteError" -> RemoteErrorLayout
      [] variant = "Shutdown" -> ShutdownLayout
      [] variant = "PartialDeliveryEvent" -> PdapiEventLayout
      [] variant = "AdaptationIndication" -> AdaptationEventLayout
      [] variant = "AuthenticationEvent" -> AuthkeyEventLayout
      [] variant = "SenderDryEvent" -> SenderDryEventLayout

\* The variants whose struct ends in a Vec<u8> (info or data).
HasTrailingPayload(variant) ==
    variant \in {"AssociationChange", "SendFailed", "RemoteError"}

(***************************************************************************)
(* The notification codec                                                  *)
(***************************************************************************)

Ok(v) == [ok |-> TRUE, val |-> v]

Err(e) == [ok |-> FALSE, err |-> e]

\* decode_notification(buffer, declared_length): read the tag, map it to an
\* Event, dispatch to the variant's struct; a tag with no variant decodes to
\* Unsupported; a declared length below the struct's size, or a buffer
\* shorter than the declared length, is a decode error; a trailing payload is
\* the declared_length - size bytes after the struct.
decode_notification(buf, declared) ==
    IF Len(buf) < 2 THEN Err("MalformedBuffer")
    ELSE
        LET ev == Event_from_u16(DecodeField("u16", SubSeq(buf, 1, 2)))
            variant == NotificationOf(ev)
        IN  IF variant = "Unsupported" THEN Ok([variant |-> "Unsupported"])
            ELSE
                LET layout == LayoutOf(variant)
                    size == SizeOf(layout)
                IN  IF U32LtNat(declared, size) \/ NatLtU32(Len(buf), declared)
                    THEN Err("MalformedBuffer")
                    ELSE Ok([variant |-> variant,
                             fields |-> DecodeStruct(layout, buf),
                             payload |-> IF HasTrailingPayload(variant)
                                         THEN SubSeq(buf, size + 1, U32AsNat(declared))
                                         ELSE <<>>])

(***************************************************************************)
(* The ancillary-data codec                                                *)
(***************************************************************************)

\* encode_send_info(SendInfo): the control-message body, the #[repr(C)] bytes
\* of the struct.
encode_send_info(info) == EncodeStruct(SendInfoLayout, info)

\* The SendInfo that control-message bytes hold, read through the same layout.
decode_send_info(bytes) == DecodeStruct(SendInfoLayout, bytes)

None == <<>>

Some(v) == <<v>>

\* The struct held by the first control message of type t, if there is one.
FindInfo(cmsgs, t, layout) ==
    LET found == { i \in 1..Len(cmsgs) : cmsgs[i].cmsg_type = CmsgType_as_i32(t) }
    IN  IF found = {} THEN None
        ELSE LET first == CHOOSE i \in found : \A j \in found : i <= j
             IN Some(DecodeStruct(layout, cmsgs[first].data))

\* decode_received_data(payload, ancillary_messages): the payload with the
\* RcvInfo and NxtInfo control messages decoded; other messages are skipped.
decode_received_data(payload, cmsgs) ==
    [payload |-> payload,
     rcv_info |-> FindInfo(cmsgs, "RcvInfo", RcvInfoLayout),
     nxt_info |-> FindInfo(cmsgs, "NxtInfo", NxtInfoLayout)]

RECURSIVE BitAnd(_, _)
\* a & b of two non-negative integers.
BitAnd(a, b) ==
    IF a = 0 \/ b = 0 THEN 0
    ELSE (a % 2) * (b % 2) + 2 * BitAnd(a \div 2, b \div 2)

\* The receive call's flags word marks the buffer as a notification.
IsNotification(msg_flags) == BitAnd(msg_flags, MSG_NOTIFICATION) # 0

\* One receive: a NotificationOrData, chosen by the flags word of the call.
\* `result` is what the chosen decoder returned.
sctp_recv(msg_flags, buf, declared, cmsgs) ==
    IF IsNotification(msg_flags)
    THEN [variant |-> "Notification", result |-> decode_notification(buf, declared)]
    ELSE [variant |-> "Data", result |-> Ok(decode_received_data(buf, cmsgs))]

(***************************************************************************)
(* Inputs                                                                  *)
(***************************************************************************)

\* The field patterns tried: 0 is all zeroes, odd seeds give each field a
\* small value of its own, even seeds a value near the top of its type.
MaxSeed == 2

\* The longest trailing payload tried.
MaxTail == 4

PatternValue(seed, i, f) ==
    LET base == seed * i
        odd == seed % 2 = 1
    IN  CASE f.ty = "u16" -> IF odd THEN base ELSE (65536 - base) % 65536
          [] f.ty = "u32" -> IF odd \/ seed = 0 THEN U32(0, base)
                             ELSE U32(65535, 65535 - base)
          [] f.ty = "i32" -> IF odd THEN base ELSE -base
          [] f.ty = "bytes" -> [k \in 1..f.size |-> (base + k * seed) % 256]

\* Values for the fields of a struct, by pattern.
PatternFields(layout, seed) ==
    LET IndexOf(n) == CHOOSE i \in 1..Len(layout) : layout[i].name = n
    IN [n \in FieldNames(layout) |-> PatternValue(seed, IndexOf(n), layout[IndexOf(n)])]

\* The bytes of a trailing payload of n bytes: 0xAA, 0xBB, 0xCC, 0xDD, ...
TailBytes(n, seed) == [k \in 1..n |-> (\HAA + 17 * (k - 1) + seed) % 256]

Take(seq, n) == SubSeq(seq, 1, IF n < Len(seq) THEN n ELSE Len(seq))

\* The struct the kernel writes for a notification type.
KernelLayout(tag) ==
    CASE tag = SCTP_ASSOC_CHANGE -> AssociationChangeLayout
      [] tag = SCTP_PEER_ADDR_CHANGE -> PeerAddrChangeLayout
      [] tag = SCTP_SEND_FAILED -> SendFailedLayout
      [] tag = SCTP_REMOTE_ERROR -> RemoteErrorLayout
      [] tag = SCTP_SHUTDOWN -> ShutdownLayout
      [] tag = SCTP_PARTIAL_DELIVERY_EVENT -> PdapiEventLayout
      [] tag = SCTP_ADAPTATION_INDICATION -> AdaptationEventLayout
      [] tag = SCTP_AUTHENTICATION_EVENT -> AuthkeyEventLayout
      [] tag = SCTP_SENDER_DRY_EVENT -> SenderDryEventLayout
      [] OTHER -> HeaderLayout

\* The notification types tried: the nine of consts.rs, the Event values
\* that have no notification, and values that are no Event.
TagsTried ==
    { SCTP_ASSOC_CHANGE, SCTP_PEER_ADDR_CHANGE, SCTP_SEND_FAILED, SCTP_REMOTE_ERROR,
      SCTP_SHUTDOWN, SCTP_PARTIAL_DELIVERY_EVENT, SCTP_ADAPTATION_INDICATION,
      SCTP_AUTHENTICATION_EVENT, SCTP_SENDER_DRY_EVENT }
    \cup { Event_as_u16(e) : e \in { "DataIo", "StreamReset", "AssociationReset",
                                     "StreamChange", "SendFailureEvent", "Unknown" } }
    \cup { 0, 1, \H7FFF, U16Max }

\* The declared lengths tried for a struct of `size` bytes: 0, one less than
\* the struct, the struct with 0..MaxTail trailing bytes, and u32::MAX.
DeclaredTried(size) ==
    { U32OfNat(d) : d \in {0} \cup ((size - 1)..(size + MaxTail)) }
    \cup { U32(U16Max, U16Max) }

\* The bytes of a notification of type tag that declares `declared` bytes.
NotificationBytes(tag, seed, declared) ==
    LET layout == KernelLayout(tag)
        size == SizeOf(layout)
        fields == [PatternFields(layout, seed) EXCEPT !.ev_type = tag,
                                                      !.length = declared]
        tail == IF declared.hi = 0 /\ declared.lo > size THEN declared.lo - size ELSE 0
    IN EncodeStruct(layout, fields) \o TailBytes(tail, seed)

\* The buffers a receive may hand over for those bytes: all of them, one byte
\* more, one byte less, and only the first 0, 1 or 2 bytes.
BuffersOf(bytes) ==
    { Take(bytes \o << \HEE >>, n) :
        n \in {0, 1, 2, Len(bytes) - 1, Len(bytes), Len(bytes) + 1} }

NotificationInputsFor(tags, seeds) ==
    UNION { UNION { { [buf |-> b, declared |-> d] :
                        b \in BuffersOf(NotificationBytes(tag, seed, d)) } :
                    d \in DeclaredTried(SizeOf(KernelLayout(tag))) } :
            tag \in tags, seed \in seeds }

\* An association-change notification as the kernel writes it for an
\* association that came up (state 0) with 10 outbound and 10 inbound
\* streams and id 5, flags 0, error 0, with `length` in its length field.
AssocUpBytes(length) ==
    << \H01, \H80, 0, 0, length, 0, 0, 0, 0, 0, 0, 0, 10, 0, 10, 0, 5, 0, 0, 0 >>

\* That notification with no info (20 bytes declared), with 16 bytes of info
\* (36 declared), and with 36 declared and no byte after the struct.
AssocUpInputs ==
    { [buf |-> AssocUpBytes(20), declared |-> U32OfNat(20)],
      [buf |-> AssocUpBytes(36) \o TailBytes(16, 0), declared |-> U32OfNat(36)],
      [buf |-> AssocUpBytes(36), declared |-> U32OfNat(36)] }

NotificationInputs == NotificationInputsFor(TagsTried, 0..MaxSeed) \cup AssocUpInputs

U16Tried == {0, 1, U16Max}

U32Tried == { U32(0, 0), U32(0, 1), U32(32768, 0), U32(U16Max, U16Max) }

I32Tried == { I32Min, -1, 0, 5, I32Max }

SendInfoInputs ==
    [sid : U16Tried, flags : U16Tried, ppid : U32Tried, context : U32Tried,
     assoc_id : I32Tried]

\* The flags words of a receive call tried (msg_flags is a c_int).
MsgFlagsTried == { 0, \H80, \H4000, \H7FFF, \H8000, \H8080, \HFFFF, \H10000, \H18000 }

\* A control message: its type and its body.
Cmsg(t, layout) ==
    [cmsg_type |-> CmsgType_as_i32(t), data |-> EncodeStruct(layout, PatternFields(layout, 1))]

\* The control messages of a receive tried: none, the RcvInfo, and a
\* message the caller does not need followed by the NxtInfo and the RcvInfo.
CmsgsTried ==
    { <<>>,
      << Cmsg("RcvInfo", RcvInfoLayout) >>,
      << Cmsg("SndInfo", SendInfoLayout), Cmsg("NxtInfo", NxtInfoLayout),
         Cmsg("RcvInfo", RcvInfoLayout) >> }

\* The payloads of a receive tried: notifications, which a receive may also
\* deliver as data.
RecvBuffers ==
    NotificationInputsFor({ SCTP_ASSOC_CHANGE, SCTP_SEND_FAILED, SCTP_SHUTDOWN,
                            Event_as_u16("StreamReset"), 0 }, {1})
    \cup AssocUpInputs

RecvInputs ==
    { [msg_flags |-> f, buf |-> n.buf, declared |-> n.declared, cmsgs |-> c] :
        f \in MsgFlagsTried, n \in RecvBuffers, c \in CmsgsTried }

(***************************************************************************)
(* The codec calls                                                         *)
(***************************************************************************)

Init ==
    /\ pc = "call"
    /\ wire = <<>>
    /\ ret = NoValue
    /\ \/ op = "decode_notification" /\ arg \in NotificationInputs
       \/ op = "encode_send_info" /\ arg \in SendInfoInputs
       \/ op = "sctp_recv" /\ arg \in RecvInputs

DecodeNotification ==
    /\ pc = "call" /\ op = "decode_notification"
    /\ Return(decode_notification(arg.buf, arg.declared))

\* A SendInfo is encoded for the send call ...
EncodeSendInfo ==
    /\ pc = "call" /\ op = "encode_send_info"
    /\ pc' = "mid"
    /\ wire' = encode_send_info(arg)
    /\ UNCHANGED <<op, arg, ret>>

\* ... and its bytes are read back.
DecodeSendInfo ==
    /\ pc = "mid" /\ op = "encode_send_info"
    /\ Return(decode_send_info(wire))

Recv ==
    /\ pc = "call" /\ op = "sctp_recv"
    /\ Return(sctp_recv(arg.msg_flags, arg.buf, arg.declared, arg.cmsgs))

Next ==
    \/ DecodeNotification
    \/ EncodeSendInfo
    \/ DecodeSendInfo
    \/ Recv

Spec == Init /\ [][Next]_vars

(***************************************************************************)
(* Properties of the codec                                                 *)
(***************************************************************************)

\* The type tag at the start of a buffer of two bytes or more.
TagOf(buf) == buf[1] + 256 * buf[2]

DecodedNotification == Returned("decode_notification") /\ Len(arg.buf) >= 2

\* The declared length is below n; the buffer is shorter than the declared length.
DeclaredBelow(n) == arg.declared.hi = 0 /\ arg.declared.lo < n

BufferTruncated == arg.declared.hi > 0 \/ Len(arg.buf) < arg.declared.lo

IsDecodeError(r) == r.ok = FALSE /\ DOMAIN r = {"ok", "err"}

\* C6: length invariant of decode_notification.  For AssociationChange,
\* SendFailed and RemoteError, a declared length below the fixed-header size,
\* or a buffer shorter than the declared length, returns a decode error (no
\* value at all); otherwise the trailing payload is exactly the
\* declared_length - header_size bytes that follow the header.
C6_HeaderSize(tag) ==
    CASE tag = \H8001 -> 2 + 2 + 4 + 2 + 2 + 2 + 2 + 4
      [] tag = \H8003 -> 2 + 2 + 4 + 4 + 32 + 4
      [] tag = \H8004 -> 2 + 2 + 4 + 2 + 2 + 4

C6_LengthInvariant ==
    (DecodedNotification /\ TagOf(arg.buf) \in {\H8001, \H8003, \H8004}) =>
        LET h == C6_HeaderSize(TagOf(arg.buf))
            malformed == DeclaredBelow(h) \/ BufferTruncated
        IN  /\ malformed => IsDecodeError(ret)
            /\ ~malformed =>
                  /\ ret.ok
                  /\ Len(ret.val.payload) = arg.declared.lo - h
                  /\ ret.val.payload = SubSeq(arg.buf, h + 1, arg.declared.lo)

C6_Witness ==
    /\ DecodedNotification /\ TagOf(arg.buf) = \H8001
    /\ arg.declared = U32OfNat(19) /\ Len(arg.buf) = 20
    /\ IsDecodeError(ret)

\* C7: tag dispatch of decode_notification.  A well-formed buffer (declared
\* length at least the variant's struct, buffer at least the declared length)
\* with tag 0x8001..0x8009 decodes to AssociationChange, PeerAddrChange,
\* SendFailed, RemoteError, Shutdown, PartialDeliveryEvent,
\* AdaptationIndication, AuthenticationEvent, SenderDryEvent respectively; a
\* buffer with any other tag decodes to Unsupported, never to a decode error.
C7_Variants ==
    << "AssociationChange", "PeerAddrChange", "SendFailed", "RemoteError",
       "Shutdown", "PartialDeliveryEvent", "AdaptationIndication",
       "AuthenticationEvent", "SenderDryEvent" >>

C7_StructSize == << 20, 148, 48, 16, 12, 24, 16, 20, 12 >>

C7_TagDispatch ==
    DecodedNotification =>
        LET tag == TagOf(arg.buf)
        IN  /\ ( /\ tag \in \H8001..\H8009
                 /\ ~DeclaredBelow(C7_StructSize[tag - \H8000])
                 /\ ~BufferTruncated )
               => (ret.ok /\ ret.val.variant = C7_Variants[tag - \H8000])
            /\ tag \notin \H8001..\H8009
               => (ret.ok /\ ret.val.variant = "Unsupported")

C7_Witness ==
    /\ DecodedNotification /\ TagOf(arg.buf) = \H800A
    /\ ret.ok /\ ret.val.variant = "Unsupported"

\* The association-change notification of the scenario: tag 0x8001, flags 0,
\* the given length, state 0, error 0, ob_streams 10, ib_streams 10,
\* assoc_id 5, and no byte after these fields.
C8_Scenario(length) ==
    [buf |-> << 1, 128,  0, 0,  length, 0, 0, 0,  0, 0,  0, 0,  10, 0,  10, 0,
                5, 0, 0, 0 >>,
     declared |-> U32OfNat(length)]

C8_DecodesToCommUp ==
    /\ ret.ok
    /\ ret.val.variant = "AssociationChange"
    /\ ret.val.fields.state = "CommUp"
    /\ ret.val.fields.ob_streams = 10
    /\ ret.val.fields.ib_streams = 10
    /\ ret.val.fields.assoc_id = 5
    /\ ret.val.payload = <<>>

\* C8 (as stated): the scenario with declared length 36 decodes to
\* AssociationChange with state CommUp, ob_streams 10, ib_streams 10,
\* assoc_id 5 and an empty info.
C8_AssocUpLength36 ==
    (Returned("decode_notification") /\ arg = C8_Scenario(36)) => C8_DecodesToCommUp

\* C8 (amended): the scenario with declared length 20, the size of the fixed
\* header ev_type, flags, length, state, error, ob_streams, ib_streams,
\* assoc_id, decodes to AssociationChange with state CommUp, ob_streams 10,
\* ib_streams 10, assoc_id 5 and an empty info: the info has declared length
\* minus 20 bytes.
C8_AssocUpLength20 ==
    (Returned("decode_notification") /\ arg = C8_Scenario(20)) =>
        /\ C8_DecodesToCommUp
        /\ Len(ret.val.payload) = arg.declared.lo - (2 + 2 + 4 + 2 + 2 + 2 + 2 + 4)

C8_Witness ==
    Returned("decode_notification") /\ arg = C8_Scenario(20) /\ ret.ok

\* C9: SendInfo round trip.  Encoding never fails and lays the fields out in
\* the order sid (u16), flags (u16), ppid (u32), context (u32), assoc_id
\* (i32); decoding those bytes gives back every field of the original.
C9_Wire(info) ==
    EncodeField("u16", info.sid) \o EncodeField("u16", info.flags)
        \o EncodeField("u32", info.ppid) \o EncodeField("u32", info.context)
        \o EncodeField("i32", info.assoc_id)

C9_SendInfoRoundTrip ==
    /\ (op = "encode_send_info" /\ pc \in {"mid", "ret"}) =>
          (wire = C9_Wire(arg) /\ Len(wire) = 16)
    /\ Returned("encode_send_info") =>
          /\ ret.sid = arg.sid
          /\ ret.flags = arg.flags
          /\ ret.ppid = arg.ppid
          /\ ret.context = arg.context
          /\ ret.assoc_id = arg.assoc_id
          /\ ret = arg

C9_Witness ==
    /\ Returned("encode_send_info")
    /\ arg.sid = 1 /\ arg.flags = U16Max
    /\ arg.ppid = U32(U16Max, U16Max) /\ arg.assoc_id = I32Min
    /\ ret = arg

\* C10: one receive yields exactly one of Notification or Data, Notification
\* if and only if bit 0x8000 of the call's flags word is set; a receive with
\* the same flags word and any other payload is classified the same way.
C10_FlagDecides ==
    Returned("sctp_recv") =>
        LET bit == (arg.msg_flags \div 32768) % 2 = 1
        IN  /\ ret.variant \in {"Notification", "Data"}
            /\ ret.variant = "Notification" <=> bit
            /\ ret.variant = "Data" <=> ~bit
            /\ \A other \in AssocUpInputs \cup {[buf |-> <<>>, declared |-> U32OfNat(0)]} :
                  sctp_recv(arg.msg_flags, other.buf, other.declared, arg.cmsgs).variant
                      = ret.variant

C10_Witness ==
    /\ Returned("sctp_recv")
    /\ arg.msg_flags = \H8080
    /\ ret.variant = "Notification" /\ ret.result.ok

(***************************************************************************)
(* Agreement of the tag tables                                             *)
(***************************************************************************)

\* The notification-type constants of consts.rs, each with the Event of the
\* same meaning.
C11_Constants ==
    << <<SCTP_ASSOC_CHANGE, "Association">>,
       <<SCTP_PEER_ADDR_CHANGE, "Address">>,
       <<SCTP_SEND_FAILED, "SendFailure">>,
       <<SCTP_REMOTE_ERROR, "PeerError">>,
       <<SCTP_SHUTDOWN, "Shutdown">>,
       <<SCTP_PARTIAL_DELIVERY_EVENT, "PartialDelivery">>,
       <<SCTP_ADAPTATION_INDICATION, "AdaptationLayer">>,
       <<SCTP_AUTHENTICATION_EVENT, "Authentication">>,
       <<SCTP_SENDER_DRY_EVENT, "SenderDry">> >>

\* C11: the tag tables agree.  For every Event variant e, Unknown included,
\* Event::from_u16 of e's own discriminant returns e; each of the nine
\* notification-type constants equals the discriminant of the Event of the
\* same meaning, and Event::from_u16 of the constant returns that Event.
C11_TagTablesAgree ==
    /\ Returned("Event as u16") => Event_from_u16(ret) = arg
    /\ Returned("Event::from_u16") =>
          \A i \in 1..Len(C11_Constants) :
              /\ C11_Constants[i][1] = Event_as_u16(C11_Constants[i][2])
              /\ arg = C11_Constants[i][1] => ret = C11_Constants[i][2]
              /\ ret = C11_Constants[i][2] => arg = C11_Constants[i][1]

C11_Witness ==
    /\ Returned("Event as u16") /\ arg = "Unknown" /\ ret = \H800E
    /\ Event_from_u16(ret) = "Unknown"

====
